---- MODULE Spec2Model ----
(***************************************************************************)
(* Parameter resolution for INSERT / UPDATE statements (sql/crud.py) and   *)
(* the ON CONFLICT clause builder (dialects/postgresql/on_conflict.py).    *)
(*                                                                         *)
(* Representation                                                          *)
(*   column        record [table, key, primary_key, default,               *)
(*                 server_default, onupdate, server_onupdate]              *)
(*   column id     <<table name, column key>> (object identity)            *)
(*   DefaultSpec   None | "sequence" | "optional_sequence" | "clause" |    *)
(*                 "scalar" (client side value or callable)                *)
(*   column key    <<"", name>> (plain) or <<table, name>> (qualified);    *)
(*                 NoKey when a dictionary key resolves to no column key   *)
(*   Python dict   parameters: a function on its key set;                  *)
(*                 stmt.parameters: a sequence of [key, value] items with  *)
(*                 distinct keys (the dict's iteration order)              *)
(*   Optional[T]   stmt.parameters: the sequence of row dicts, <<>> for    *)
(*                 None; compiler.column_keys: has_column_keys = FALSE     *)
(*                 for None                                                *)
(*   rendered SQL  record [kind, name, value, required]                    *)
(***************************************************************************)
EXTENDS Integers, Sequences, FiniteSets, TLC

VARIABLES
    stmt,          \* the statement and the compiler / dialect flags (input)
    pc,            \* "ready" | "returned" | "raised"
    prefetch,      \* compiler.prefetch
    postfetch,     \* compiler.postfetch
    returning,     \* compiler.returning
    result,        \* the return value: one value list per row
    unconsumed,    \* the keys named by the CompileError, {} when none
    check_columns, \* the keys of check_columns when the names are checked
    builder        \* the ON CONFLICT clause object and its call history

vars ==
    <<stmt, pc, prefetch, postfetch, returning, result, unconsumed,
      check_columns, builder>>

crud_vars ==
    <<stmt, pc, prefetch, postfetch, returning, result, unconsumed,
      check_columns>>

None == "None"

REQUIRED == [lit |-> TRUE, v |-> "REQUIRED"]

NoKey == <<None, None>>

\* ------------------------------------------------------------------------
\* helpers on sequences

Range(s) == {s[i] : i \in 1..Len(s)}

RECURSIVE Concat(_)
Concat(ss) ==
    IF ss = <<>> THEN <<>> ELSE Head(ss) \o Concat(Tail(ss))

Count(s, x) == Cardinality({i \in 1..Len(s) : s[i] = x})

ColId(c) == <<c.table, c.key>>

\* ------------------------------------------------------------------------
\* DefaultSpec attributes

is_sequence(d) == d \in {"sequence", "optional_sequence"}

optional(d) == d = "optional_sequence"

is_clause_element(d) == d = "clause"

\* ------------------------------------------------------------------------
\* rendering

_is_literal(value) == value.lit

_create_bind_param(col, value, required, name) ==
    [kind |-> "bind", name |-> name, value |-> value, required |-> required]

process(kind, what) ==
    [kind |-> kind, name |-> "", value |-> what, required |-> FALSE]

Entry(target, rendered) == [target |-> target, value |-> rendered]

\* ------------------------------------------------------------------------
\* _key_getters_for_crud_column

ExtraTableNames(s) == {s.extra_froms[i].name : i \in 1..Len(s.extra_froms)}

IsMultiTable(s) == s.isupdate /\ s.extra_froms # <<>>

elements_column_as_key(key) ==
    IF key.kind \in {"str", "col"} THEN key.name ELSE None

_column_as_key(s, key) ==
    LET str_key == elements_column_as_key(key)
    IN  IF IsMultiTable(s) /\ key.kind = "col" /\ key.table \in ExtraTableNames(s)
        THEN <<key.table, str_key>>
        ELSE IF str_key = None THEN NoKey ELSE <<"", str_key>>

_getattr_col_key(s, col) ==
    IF IsMultiTable(s) /\ col.table \in ExtraTableNames(s)
    THEN <<col.table, col.key>>
    ELSE <<"", col.key>>

_col_bind_name(s, col) ==
    IF IsMultiTable(s) /\ col.table \in ExtraTableNames(s)
    THEN col.table \o "_" \o col.key
    ELSE col.key

\* ------------------------------------------------------------------------
\* _get_returning_modifiers

need_pks(s) ==
    s.isinsert /\ ~s.inline /\ ~s.returning /\ ~s.has_multi_parameters

implicit_returning(s) ==
    need_pks(s) /\ s.dialect.implicit_returning /\ s.table_implicit_returning

ReturnDefaultsSet(s) ==
    IF s.return_defaults.all
    THEN {ColId(s.table[i]) : i \in 1..Len(s.table)}
    ELSE s.return_defaults.cols

ReturnDefaultsRequested(s) ==
    s.return_defaults.all \/ s.return_defaults.cols # {}

implicit_return_defaults(s) ==
    IF s.isinsert
    THEN IF implicit_returning(s) /\ ReturnDefaultsRequested(s)
         THEN ReturnDefaultsSet(s) ELSE {}
    ELSE IF s.isupdate
    THEN IF s.dialect.implicit_returning /\ s.table_implicit_returning
            /\ ReturnDefaultsRequested(s)
         THEN ReturnDefaultsSet(s) ELSE {}
    ELSE {}

postfetch_lastrowid(s) == need_pks(s) /\ s.dialect.postfetch_lastrowid

IsAutoincrementColumn(s, c) == s.autoincrement_column = c.key

\* ------------------------------------------------------------------------
\* the classification context threaded through the helpers

AddValue(ctx, c, rendered) ==
    [ctx EXCEPT !.values = Append(@, Entry(ColId(c), rendered))]

AddReturning(ctx, c) == [ctx EXCEPT !.returning = Append(@, ColId(c))]

AddPrefetch(ctx, c) == [ctx EXCEPT !.prefetch = Append(@, ColId(c))]

AddPostfetch(ctx, c) == [ctx EXCEPT !.postfetch = Append(@, ColId(c))]

Pop(ctx, col_key) ==
    [ctx EXCEPT !.parameters =
        [k \in (DOMAIN ctx.parameters) \ {col_key} |-> ctx.parameters[k]]]

SequenceRendered(s, d) ==
    s.dialect.supports_sequences
    /\ (~optional(d) \/ ~s.dialect.sequences_optional)

\* ------------------------------------------------------------------------
\* _append_param_parameter

\* variant: a SQL expression value marks the column in returning and in
\* postfetch
_append_param_parameter_both(s, c, col_key, ctx) ==
    LET value == ctx.parameters[col_key]
        popped == Pop(ctx, col_key)
        name == IF ~s.has_multi_parameters
                THEN _col_bind_name(s, c)
                ELSE _col_bind_name(s, c) \o "_0"
    IN  IF _is_literal(value)
        THEN AddValue(popped, c,
                 _create_bind_param(c, value.v, value = REQUIRED, name))
        ELSE AddValue(AddPostfetch(AddReturning(popped, c), c), c,
                      process("sql", value.v))

_append_param_parameter(s, c, col_key, ctx) ==
    LET value == ctx.parameters[col_key]
        popped == Pop(ctx, col_key)
        name == IF ~s.has_multi_parameters
                THEN _col_bind_name(s, c)
                ELSE _col_bind_name(s, c) \o "_0"
    IN  IF _is_literal(value)
        THEN AddValue(popped, c,
                 _create_bind_param(c, value.v, value = REQUIRED, name))
        ELSE IF c.primary_key /\ implicit_returning(s)
        THEN AddValue(AddReturning(popped, c), c, process("sql", value.v))
        ELSE IF ColId(c) \in implicit_return_defaults(s)
        THEN AddValue(AddReturning(popped, c), c, process("sql", value.v))
        ELSE AddValue(AddPostfetch(popped, c), c, process("sql", value.v))

\* ------------------------------------------------------------------------
\* _append_param_insert_pk_returning

\* variant: a sequence the dialect does not render leaves the column out of
\* returning
_append_param_insert_pk_returning_rendered_only(s, c, ctx) ==
    IF c.default # None
    THEN IF is_sequence(c.default)
         THEN IF SequenceRendered(s, c.default)
              THEN AddReturning(AddValue(ctx, c, process("nextval", c.key)), c)
              ELSE ctx
         ELSE IF is_clause_element(c.default)
         THEN AddReturning(AddValue(ctx, c, process("default", c.key)), c)
         ELSE AddPrefetch(
                  AddValue(ctx, c, _create_bind_param(c, None, FALSE, c.key)), c)
    ELSE AddReturning(ctx, c)

_append_param_insert_pk_returning(s, c, ctx) ==
    IF c.default # None
    THEN IF is_sequence(c.default)
         THEN IF SequenceRendered(s, c.default)
              THEN AddReturning(AddValue(ctx, c, process("nextval", c.key)), c)
              ELSE AddReturning(ctx, c)
         ELSE IF is_clause_element(c.default)
         THEN AddReturning(AddValue(ctx, c, process("default", c.key)), c)
         ELSE AddPrefetch(
                  AddValue(ctx, c, _create_bind_param(c, None, FALSE, c.key)), c)
    ELSE AddReturning(ctx, c)

\* ------------------------------------------------------------------------
\* _append_param_insert_pk

\* variant: preexecute_autoincrement_sequences is not consulted
_append_param_insert_pk_sequences_only(s, c, ctx) ==
    IF \/ (c.default # None
           /\ (~is_sequence(c.default) \/ s.dialect.supports_sequences))
       \/ (IsAutoincrementColumn(s, c) /\ s.dialect.supports_sequences)
    THEN AddPrefetch(
             AddValue(ctx, c, _create_bind_param(c, None, FALSE, c.key)), c)
    ELSE ctx

_append_param_insert_pk(s, c, ctx) ==
    IF \/ (c.default # None
           /\ (~is_sequence(c.default) \/ s.dialect.supports_sequences))
       \/ (IsAutoincrementColumn(s, c)
           /\ (s.dialect.supports_sequences
               \/ s.dialect.preexecute_autoincrement_sequences))
    THEN AddPrefetch(
             AddValue(ctx, c, _create_bind_param(c, None, FALSE, c.key)), c)
    ELSE ctx

\* ------------------------------------------------------------------------
\* _append_param_insert_hasdefault

_append_param_insert_hasdefault(s, c, ctx) ==
    IF is_sequence(c.default)
    THEN IF SequenceRendered(s, c.default)
         THEN LET v == AddValue(ctx, c, process("nextval", c.key))
              IN  IF ColId(c) \in implicit_return_defaults(s)
                  THEN AddReturning(v, c)
                  ELSE IF ~c.primary_key THEN AddPostfetch(v, c) ELSE v
         ELSE ctx
    ELSE IF is_clause_element(c.default)
    THEN LET v == AddValue(ctx, c, process("default", c.key))
         IN  IF ColId(c) \in implicit_return_defaults(s)
             THEN AddReturning(v, c)
             ELSE IF ~c.primary_key THEN AddPostfetch(v, c) ELSE v
    ELSE AddPrefetch(
             AddValue(ctx, c, _create_bind_param(c, None, FALSE, c.key)), c)

\* ------------------------------------------------------------------------
\* _append_param_update

\* variant: a scalar onupdate marks the column in prefetch without a value
_append_param_update_prefetch_only(s, c, ctx) ==
    IF c.onupdate # None /\ ~is_sequence(c.onupdate)
    THEN IF is_clause_element(c.onupdate)
         THEN LET v == AddValue(ctx, c, process("onupdate", c.key))
              IN  IF ColId(c) \in implicit_return_defaults(s)
                  THEN AddReturning(v, c)
                  ELSE AddPostfetch(v, c)
         ELSE AddPrefetch(ctx, c)
    ELSE IF c.server_onupdate
    THEN IF ColId(c) \in implicit_return_defaults(s)
         THEN AddReturning(ctx, c)
         ELSE AddPostfetch(ctx, c)
    ELSE IF ColId(c) \in implicit_return_defaults(s)
    THEN AddReturning(ctx, c)
    ELSE ctx

_append_param_update(s, c, ctx) ==
    IF c.onupdate # None /\ ~is_sequence(c.onupdate)
    THEN IF is_clause_element(c.onupdate)
         THEN LET v == AddValue(ctx, c, process("onupdate", c.key))
              IN  IF ColId(c) \in implicit_return_defaults(s)
                  THEN AddReturning(v, c)
                  ELSE AddPostfetch(v, c)
         ELSE AddPrefetch(
                  AddValue(ctx, c, _create_bind_param(c, None, FALSE, c.key)), c)
    ELSE IF c.server_onupdate
    THEN IF ColId(c) \in implicit_return_defaults(s)
         THEN AddReturning(ctx, c)
         ELSE AddPostfetch(ctx, c)
    ELSE IF ColId(c) \in implicit_return_defaults(s)
    THEN AddReturning(ctx, c)
    ELSE ctx

\* ------------------------------------------------------------------------
\* _get_stmt_parameters_params: fold over stmt_parameters.items()

RECURSIVE _get_stmt_parameters_params(_, _, _)
_get_stmt_parameters_params(s, items, ctx) ==
    IF items = <<>> THEN ctx
    ELSE LET k == Head(items).key
             v == Head(items).value
             colkey == _column_as_key(s, k)
             next ==
                 IF colkey # NoKey
                 THEN IF colkey \in DOMAIN ctx.parameters
                      THEN ctx
                      ELSE [ctx EXCEPT !.parameters =
                               [x \in (DOMAIN ctx.parameters) \cup {colkey} |->
                                   IF x = colkey THEN v ELSE ctx.parameters[x]]]
                 ELSE [ctx EXCEPT !.values = Append(@,
                          Entry(<<"<expr>", k.name>>,
                                IF _is_literal(v)
                                THEN process("anon_bind", v.v)
                                ELSE process("sql", v.v)))]
         IN  _get_stmt_parameters_params(s, Tail(items), next)

\* ------------------------------------------------------------------------
\* _get_multitable_params

InNormalizedParams(items, c) ==
    \E i \in 1..Len(items) :
        /\ items[i].key.kind = "col"
        /\ items[i].key.table = c.table
        /\ items[i].key.name = c.key

NormalizedParam(items, c) ==
    LET i == CHOOSE j \in 1..Len(items) :
                 /\ items[j].key.kind = "col"
                 /\ items[j].key.table = c.table
                 /\ items[j].key.name = c.key
    IN  items[i].value

AllExtraColumns(s) ==
    Concat([i \in 1..Len(s.extra_froms) |-> s.extra_froms[i].c])

\* with one extra table the iteration order of the affected_tables set is
\* the order of _extra_froms
AffectedColumns(s, items) ==
    Concat([i \in 1..Len(s.extra_froms) |->
        IF \E j \in 1..Len(s.extra_froms[i].c) :
               InNormalizedParams(items, s.extra_froms[i].c[j])
        THEN s.extra_froms[i].c ELSE <<>>])

MultitableExplicit(s, items, c, ctx) ==
    IF InNormalizedParams(items, c)
    THEN LET value == NormalizedParam(items, c)
             chk == [ctx EXCEPT !.check_columns = @ \cup {_getattr_col_key(s, c)}]
         IN  IF _is_literal(value)
             THEN AddValue(chk, c,
                      _create_bind_param(c, value.v, value = REQUIRED,
                                         _col_bind_name(s, c)))
             ELSE AddValue(AddPostfetch(chk, c), c, process("sql", value.v))
    ELSE ctx

MultitableOnupdate(s, items, c, ctx) ==
    IF InNormalizedParams(items, c) THEN ctx
    ELSE IF c.onupdate # None /\ ~is_sequence(c.onupdate)
    THEN IF is_clause_element(c.onupdate)
         THEN AddPostfetch(AddValue(ctx, c, process("onupdate", c.key)), c)
         ELSE AddPrefetch(
                  AddValue(ctx, c,
                      _create_bind_param(c, None, FALSE, _col_bind_name(s, c))),
                  c)
    ELSE IF c.server_onupdate THEN AddPostfetch(ctx, c)
    ELSE ctx

RECURSIVE MultitableFirstLoop(_, _, _, _)
MultitableFirstLoop(s, items, cols, ctx) ==
    IF cols = <<>> THEN ctx
    ELSE MultitableFirstLoop(s, items, Tail(cols),
             MultitableExplicit(s, items, Head(cols), ctx))

RECURSIVE MultitableSecondLoop(_, _, _, _)
MultitableSecondLoop(s, items, cols, ctx) ==
    IF cols = <<>> THEN ctx
    ELSE MultitableSecondLoop(s, items, Tail(cols),
             MultitableOnupdate(s, items, Head(cols), ctx))

_get_multitable_params(s, items, ctx) ==
    MultitableSecondLoop(s, items, AffectedColumns(s, items),
        MultitableFirstLoop(s, items, AllExtraColumns(s), ctx))

\* ------------------------------------------------------------------------
\* _scan_cols

ScanInsertColumn(s, c, ctx) ==
    IF c.primary_key /\ need_pks(s)
       /\ (implicit_returning(s) \/ ~postfetch_lastrowid(s)
           \/ ~IsAutoincrementColumn(s, c))
    THEN IF implicit_returning(s)
         THEN _append_param_insert_pk_returning(s, c, ctx)
         ELSE _append_param_insert_pk(s, c, ctx)
    ELSE IF c.default # None
    THEN _append_param_insert_hasdefault(s, c, ctx)
    ELSE IF c.server_default
    THEN IF ColId(c) \in implicit_return_defaults(s)
         THEN AddReturning(ctx, c)
         ELSE IF ~c.primary_key THEN AddPostfetch(ctx, c) ELSE ctx
    ELSE IF ColId(c) \in implicit_return_defaults(s)
    THEN AddReturning(ctx, c)
    ELSE ctx

\* variant: a value in parameters is not taken for the column
ScanColumn_defaults_only(s, c, ctx) ==
    IF s.isinsert THEN ScanInsertColumn(s, c, ctx)
    ELSE IF s.isupdate THEN _append_param_update(s, c, ctx)
    ELSE ctx

ScanColumn(s, c, ctx) ==
    LET col_key == _getattr_col_key(s, c)
    IN  IF col_key \in DOMAIN ctx.parameters /\ col_key \notin ctx.check_columns
        THEN _append_param_parameter(s, c, col_key, ctx)
        ELSE IF s.isinsert THEN ScanInsertColumn(s, c, ctx)
        ELSE IF s.isupdate THEN _append_param_update(s, c, ctx)
        ELSE ctx

RECURSIVE _scan_cols(_, _, _)
_scan_cols(s, cols, ctx) ==
    IF cols = <<>> THEN ctx
    ELSE _scan_cols(s, Tail(cols), ScanColumn(s, Head(cols), ctx))

\* ------------------------------------------------------------------------
\* _extend_values_for_multiparams

RowHas(row, key) ==
    \E i \in 1..Len(row) : row[i].key.kind = "str" /\ row[i].key.name = key

RowGet(row, key) ==
    LET i == CHOOSE j \in 1..Len(row) :
                 row[j].key.kind = "str" /\ row[j].key.name = key
    IN  row[i].value

EntryKey(e) == IF e.target[1] = "<expr>" THEN None ELSE e.target[2]

\* variant: every entry of a later row gets a bound parameter of its own
ExtendEntry_rebind(e, row, i) ==
    Entry(e.target,
        _create_bind_param(e.target,
            IF RowHas(row, EntryKey(e)) THEN RowGet(row, EntryKey(e)).v
            ELSE None,
            FALSE, EntryKey(e) \o "_" \o ToString(i + 1)))

ExtendEntry(e, row, i) ==
    IF RowHas(row, EntryKey(e))
    THEN LET v == RowGet(row, EntryKey(e))
         IN  Entry(e.target,
                 IF _is_literal(v)
                 THEN _create_bind_param(e.target, v.v, FALSE,
                          EntryKey(e) \o "_" \o ToString(i + 1))
                 ELSE process("sql", v.v))
    ELSE e

_extend_values_for_multiparams(s, values) ==
    <<values>> \o
    [r \in 1..(Len(s.parameters) - 1) |->
        [j \in 1..Len(values) |->
            ExtendEntry(values[j], s.parameters[r + 1], r - 1)]]

\* ------------------------------------------------------------------------
\* _get_crud_params

TableColumn(s, name) ==
    s.table[CHOOSE i \in 1..Len(s.table) : s.table[i].key = name]

\* variant: select_names is not consulted
ScanColumns_table(s) == s.table

ScanColumns(s) ==
    IF s.isinsert /\ s.select_names # <<>>
    THEN [i \in 1..Len(s.select_names) |-> TableColumn(s, s.select_names[i])]
    ELSE s.table

stmt_parameters(s) ==
    IF s.parameters = <<>> THEN <<>> ELSE s.parameters[1]

\* the objects that iterating stmt.parameters yields: the keys of the
\* dictionary, or the row dictionaries of a multi-row statement
IterStmtParameters(s) ==
    IF s.has_multi_parameters
    THEN {[kind |-> "dict", table |-> "", name |-> ""] :
              i \in 1..Len(s.parameters)}
    ELSE {stmt_parameters(s)[i].key : i \in 1..Len(stmt_parameters(s))}

InitialParameters(s) ==
    IF ~s.has_column_keys THEN <<>>
    ELSE LET named == {k \in Range(s.column_keys) :
                 ~RowHas(stmt_parameters(s), k)}
         IN  [x \in {<<"", k>> : k \in named} |-> REQUIRED]

\* variant: the names are checked for an INSERT only
Unconsumed_insert_only(s, ctx) ==
    IF s.isinsert /\ DOMAIN ctx.parameters # {} /\ stmt_parameters(s) # <<>>
    THEN ((DOMAIN ctx.parameters)
            \cap {_column_as_key(s, k) : k \in IterStmtParameters(s)})
         \ ctx.check_columns
    ELSE {}

Unconsumed(s, ctx) ==
    IF DOMAIN ctx.parameters # {} /\ stmt_parameters(s) # <<>>
    THEN ((DOMAIN ctx.parameters)
            \cap {_column_as_key(s, k) : k \in IterStmtParameters(s)})
         \ ctx.check_columns
    ELSE {}

Outcome(oc, ctx, res, chk) ==
    [pc |-> oc, prefetch |-> ctx.prefetch, postfetch |-> ctx.postfetch,
     returning |-> ctx.returning, result |-> res, unconsumed |-> chk,
     check_columns |-> ctx.check_columns]

EmptyCtx ==
    [parameters |-> <<>>, values |-> <<>>, prefetch |-> <<>>,
     postfetch |-> <<>>, returning |-> <<>>, check_columns |-> {}]

_get_crud_params(s) ==
    IF ~s.has_column_keys /\ s.parameters = <<>>
    THEN Outcome("returned", EmptyCtx,
             <<[i \in 1..Len(s.table) |->
                 Entry(ColId(s.table[i]),
                     _create_bind_param(s.table[i], None, TRUE,
                                        s.table[i].key))]>>, {})
    ELSE
    LET ctx0 == [EmptyCtx EXCEPT !.parameters = InitialParameters(s)]
        ctx1 == IF s.parameters # <<>>
                THEN _get_stmt_parameters_params(s, stmt_parameters(s), ctx0)
                ELSE ctx0
        ctx2 == IF s.isupdate /\ s.extra_froms # <<>>
                   /\ stmt_parameters(s) # <<>>
                THEN _get_multitable_params(s, stmt_parameters(s), ctx1)
                ELSE ctx1
        ctx3 == _scan_cols(s, ScanColumns(s), ctx2)
        check == Unconsumed(s, ctx3)
    IN  IF check # {}
        THEN Outcome("raised", ctx3, <<>>, check)
        ELSE IF s.has_multi_parameters
        THEN Outcome("returned", ctx3,
                 _extend_values_for_multiparams(s, ctx3.values), {})
        ELSE Outcome("returned", ctx3, <<ctx3.values>>, {})

\* ------------------------------------------------------------------------
\* bounds of the statements the model builds

NumCols == 2

MaxRows == 2

MaxFeatures == 3

ColNames == <<"a", "a_1", "b">>

ExtraColNames == <<"a", "y", "z">>

UnknownName == "zz"

PlainColumn(t, k) ==
    [table |-> t, key |-> k, primary_key |-> FALSE, default |-> None,
     server_default |-> FALSE, onupdate |-> None, server_onupdate |-> FALSE]

NoDialectFlags ==
    [supports_sequences |-> FALSE, sequences_optional |-> FALSE,
     implicit_returning |-> FALSE, postfetch_lastrowid |-> FALSE,
     preexecute_autoincrement_sequences |-> FALSE]

DialectFlags == DOMAIN NoDialectFlags

\* table.insert() / table.update() on a table of plain columns, compiled
\* for an execution without parameters: column_keys = []
PlainStatement(isinsert) ==
    [isinsert |-> isinsert, isupdate |-> ~isinsert,
     table |-> [i \in 1..NumCols |-> PlainColumn("t", ColNames[i])],
     autoincrement_column |-> None,
     table_implicit_returning |-> TRUE,
     extra_froms |-> <<>>,
     parameters |-> <<>>,
     has_multi_parameters |-> FALSE,
     select_names |-> <<>>,
     returning |-> FALSE,
     return_defaults |-> [all |-> FALSE, cols |-> {}],
     inline |-> FALSE,
     has_column_keys |-> TRUE,
     column_keys |-> <<>>,
     dialect |-> NoDialectFlags]

ExtraTable ==
    [name |-> "t2",
     c |-> [i \in 1..NumCols |-> PlainColumn("t2", ExtraColNames[i])]]

StrKey(name) == [kind |-> "str", table |-> "", name |-> name]

ColKey(c) == [kind |-> "col", table |-> c.table, name |-> c.key]

ExprKey(name) == [kind |-> "expr", table |-> "", name |-> name]

Literal(row) == [lit |-> TRUE, v |-> "v" \o ToString(row)]

Clause(row) == [lit |-> FALSE, v |-> "e" \o ToString(row)]

Item(key, value) == [key |-> key, value |-> value]

\* the number of ways a statement differs from PlainStatement; values()
\* given a list of dictionaries counts by the items of the dictionaries
B(b) == IF b THEN 1 ELSE 0

RECURSIVE Sum(_)
Sum(s) == IF s = <<>> THEN 0 ELSE Head(s) + Sum(Tail(s))

ColumnFeatures(c) ==
    B(c.primary_key) + B(c.default # None) + B(c.server_default)
    + B(c.onupdate # None) + B(c.server_onupdate)

FeatureCount(s) ==
    Sum([i \in 1..Len(s.table) |-> ColumnFeatures(s.table[i])])
    + Sum([i \in 1..Len(AllExtraColumns(s)) |->
              ColumnFeatures(AllExtraColumns(s)[i])])
    + B(s.extra_froms # <<>>)
    + B(s.autoincrement_column # None)
    + B(~s.table_implicit_returning) + B(s.inline) + B(s.returning)
    + B(s.return_defaults.all) + Cardinality(s.return_defaults.cols)
    + B(~s.has_column_keys) + Len(s.column_keys)
    + Cardinality({f \in DialectFlags : s.dialect[f]})
    + Sum([r \in 1..Len(s.parameters) |-> Len(s.parameters[r])])

\* the row dictionary with one more item
WithItem(s, r, item) ==
    IF s.parameters = <<>>
    THEN [s EXCEPT !.parameters = <<<<item>>>>]
    ELSE [s EXCEPT !.parameters[r] = Append(@, item)]

HasKey(s, r, key) ==
    /\ r <= Len(s.parameters)
    /\ \E i \in 1..Len(s.parameters[r]) : s.parameters[r][i].key = key

\* ------------------------------------------------------------------------
\* the ON CONFLICT clause builder
\*   expressions  <<>> for None, <<"text", s>> for a TextClause,
\*                <<"expr", e>> for a clause element, <<"and", l, r>>
\*   arguments    [kind |-> "str", name] for a string, [kind |-> "obj", name]
\*                for an object, has_name = FALSE when it has no .name

MaxWheres == 3

MaxArgs == 2

_UPDATE_SET_EXCLUDED == "__update_set_excluded__"

NoExpr == <<>>

_literal_as_text(w) ==
    IF w.kind = "str" THEN <<"text", w.v>> ELSE <<"expr", w.v>>

and_(l, r) == <<"and", l, r>>

resolve_possibly_named_object_to_str(col) ==
    IF col.kind = "str" THEN col.name
    ELSE IF col.has_name THEN col.name ELSE None

OnConflictClause(action_do) ==
    [action_do |-> action_do,
     conflict_target_type |-> None,
     conflict_target_elements |-> [shape |-> None, items |-> <<>>],
     conflict_target_whereclause |-> NoExpr,
     update_values_to_set |-> <<>>,
     update_whereclause |-> NoExpr]

DoUpdate == OnConflictClause("update")

DoNothing == OnConflictClause("nothing")

Call(b, raised) == [obj |-> b, raised |-> raised]

on_constraint(b, constraint) ==
    LET constraint_name == resolve_possibly_named_object_to_str(constraint)
    IN  IF constraint_name = None
        THEN Call(b, TRUE)
        ELSE Call([b EXCEPT
                 !.conflict_target_type = "constraint",
                 !.conflict_target_elements =
                     [shape |-> "str", items |-> <<constraint_name>>]],
             FALSE)

Unnamed(col) ==
    resolve_possibly_named_object_to_str(col) \in {None, ""}

on_columns(b, columns, where) ==
    IF columns = <<>> THEN Call(b, TRUE)
    ELSE LET b1 == [b EXCEPT !.conflict_target_type = "columns"]
         IN  IF \E i \in 1..Len(columns) : Unnamed(columns[i])
             THEN Call(b1, TRUE)
             ELSE Call([b1 EXCEPT
                      !.conflict_target_elements =
                          [shape |-> "list",
                           items |-> [i \in 1..Len(columns) |->
                               resolve_possibly_named_object_to_str(columns[i])]],
                      !.conflict_target_whereclause =
                          IF where = <<>> THEN @
                          ELSE _literal_as_text(where[1])],
                  FALSE)

\* update_values_to_set[colname] = _UPDATE_SET_EXCLUDED on an OrderedDict
\* whose values are all that marker: the ordered list of its keys
SetItem(keys, colname) ==
    IF colname \in Range(keys) THEN keys ELSE Append(keys, colname)

RECURSIVE set_with_excluded(_, _)
set_with_excluded(b, columns) ==
    IF columns = <<>> THEN Call(b, FALSE)
    ELSE IF Unnamed(Head(columns)) THEN Call(b, TRUE)
    ELSE set_with_excluded(
             [b EXCEPT !.update_values_to_set =
                 SetItem(@, resolve_possibly_named_object_to_str(Head(columns)))],
             Tail(columns))

\* variant: a later call replaces the filter
where_overwrite(b, whereclause) ==
    Call([b EXCEPT !.update_whereclause = _literal_as_text(whereclause)], FALSE)

where(b, whereclause) ==
    IF b.update_whereclause # NoExpr
    THEN Call([b EXCEPT !.update_whereclause =
                  and_(@, _literal_as_text(whereclause))], FALSE)
    ELSE Call([b EXCEPT !.update_whereclause =
                  _literal_as_text(whereclause)], FALSE)

\* arguments the callers pass
NameArgs ==
    {[kind |-> "str", has_name |-> FALSE, name |-> n] : n \in {"", "region"}}
    \cup {[kind |-> "obj", has_name |-> TRUE, name |-> n] : n \in {"", "amount"}}
    \cup {[kind |-> "obj", has_name |-> FALSE, name |-> ""]}

ArgLists == UNION {[1..n -> NameArgs] : n \in 0..MaxArgs}

WhereArgs == {[kind |-> "str", v |-> "A"], [kind |-> "expr", v |-> "B"]}

\* the builder with the history of the calls made on it
NewBuilder(action_do) ==
    [obj |-> OnConflictClause(action_do),
     where_calls |-> <<>>,
     last |-> [op |-> None, unnamed |-> FALSE, raised |-> FALSE]]

\* a call: the object as the call leaves it, and what the caller saw
Called(op, args, call) ==
    /\ builder' = [builder EXCEPT
           !.obj = call.obj,
           !.where_calls = IF op = "where" THEN Append(@, args[1]) ELSE @,
           !.last = [op |-> op,
                     unnamed |-> op # "where"
                                 /\ \E i \in 1..Len(args) : Unnamed(args[i]),
                     raised |-> call.raised]]
    /\ UNCHANGED crud_vars

OnConstraint ==
    \E a \in NameArgs : Called("on_constraint", <<a>>, on_constraint(builder.obj, a))

OnColumns ==
    \E cols \in ArgLists :
        \E w \in {<<>>, <<[kind |-> "str", v |-> "A"]>>} :
            Called("on_columns", cols, on_columns(builder.obj, cols, w))

SetWithExcluded ==
    /\ builder.obj.action_do = "update"
    /\ \E cols \in ArgLists :
           Called("set_with_excluded", cols, set_with_excluded(builder.obj, cols))

Where ==
    /\ builder.obj.action_do = "update"
    /\ Len(builder.where_calls) < MaxWheres
    /\ \E w \in WhereArgs : Called("where", <<w>>, where(builder.obj, w))

\* need_pks is false for a multi-row INSERT, and with it implicit_returning,
\* implicit_return_defaults and postfetch_lastrowid: such a statement reads
\* none of the settings below
ReadUnderNeedPks(s) ==
    \/ s.inline \/ s.returning \/ ~s.table_implicit_returning
    \/ s.return_defaults.all \/ s.return_defaults.cols # {}
    \/ s.autoincrement_column # None
    \/ s.dialect.implicit_returning \/ s.dialect.postfetch_lastrowid
    \/ s.dialect.preexecute_autoincrement_sequences

\* ------------------------------------------------------------------------
\* building a statement: each step is one call of the construction API
\* (Column(...), insert().values(...), the dialect's flags, ...)

\* every step adds one feature to the statement
Building == pc = "ready" /\ FeatureCount(stmt) < MaxFeatures

Construct(new) ==
    /\ new # stmt
    /\ new.has_multi_parameters => ~ReadUnderNeedPks(new)
    /\ stmt' = new
    /\ UNCHANGED <<pc, prefetch, postfetch, returning, result, unconsumed,
                   check_columns, builder>>

\* primary_key decides a column's path only under need_pks or implicit
\* returning, which hold for an INSERT only
DeclarePrimaryKey ==
    /\ Building
    /\ \E i \in 1..NumCols :
           /\ stmt.isinsert
           /\ Construct([stmt EXCEPT !.table[i].primary_key = TRUE])

\* Table._autoincrement_column: a primary key column whose default is
\* absent or a Sequence; only an INSERT reads it
DeclareAutoincrement ==
    /\ Building
    /\ \E i \in 1..NumCols :
           /\ stmt.isinsert
           /\ stmt.table[i].primary_key
           /\ stmt.table[i].default \in {None, "sequence", "optional_sequence"}
           /\ stmt.autoincrement_column = None
           /\ Construct([stmt EXCEPT !.autoincrement_column = stmt.table[i].key])

\* only an INSERT reads default and server_default
DeclareDefault ==
    /\ Building
    /\ \E i \in 1..NumCols :
           \E d \in {"sequence", "optional_sequence", "clause", "scalar"} :
               /\ stmt.isinsert
               /\ stmt.table[i].default = None
               /\ stmt.autoincrement_column = stmt.table[i].key => is_sequence(d)
               /\ Construct([stmt EXCEPT !.table[i].default = d])

DeclareServerDefault ==
    /\ Building
    /\ \E i \in 1..NumCols :
           /\ stmt.isinsert
           /\ Construct([stmt EXCEPT !.table[i].server_default = TRUE])

\* only an UPDATE reads onupdate and server_onupdate
DeclareOnupdate ==
    /\ Building
    /\ \E i \in 1..NumCols : \E d \in {"sequence", "clause", "scalar"} :
           /\ stmt.isupdate
           /\ \/ /\ stmt.table[i].onupdate = None
                 /\ Construct([stmt EXCEPT !.table[i].onupdate = d])
              \/ /\ stmt.extra_froms # <<>>
                 /\ stmt.extra_froms[1].c[i].onupdate = None
                 /\ Construct([stmt EXCEPT !.extra_froms[1].c[i].onupdate = d])

DeclareServerOnupdate ==
    /\ Building
    /\ \E i \in 1..NumCols :
           /\ stmt.isupdate
           /\ \/ Construct([stmt EXCEPT !.table[i].server_onupdate = TRUE])
              \/ /\ stmt.extra_froms # <<>>
                 /\ Construct([stmt EXCEPT
                        !.extra_froms[1].c[i].server_onupdate = TRUE])

\* an UPDATE reads dialect.implicit_returning only
SetDialectFlag ==
    /\ Building
    /\ \E f \in DialectFlags :
           /\ stmt.isinsert \/ f = "implicit_returning"
           /\ Construct([stmt EXCEPT !.dialect[f] = TRUE])

DisableTableImplicitReturning ==
    /\ Building
    /\ Construct([stmt EXCEPT !.table_implicit_returning = FALSE])

\* compiler.inline and stmt._returning are read for an INSERT only
SetInline ==
    /\ Building
    /\ stmt.isinsert /\ Construct([stmt EXCEPT !.inline = TRUE])

SetReturning ==
    /\ Building
    /\ stmt.isinsert /\ Construct([stmt EXCEPT !.returning = TRUE])

ReturnDefaults ==
    /\ Building
    /\ \/ /\ stmt.return_defaults.cols = {}
          /\ Construct([stmt EXCEPT !.return_defaults.all = TRUE])
       \/ \E i \in 1..NumCols :
              /\ ~stmt.return_defaults.all
              /\ Construct([stmt EXCEPT !.return_defaults.cols =
                     @ \cup {ColId(stmt.table[i])}])

CompileWithoutColumnKeys ==
    /\ Building
    /\ /\ stmt.column_keys = <<>>
       /\ Construct([stmt EXCEPT !.has_column_keys = FALSE])

AddColumnKey ==
    /\ Building
    /\ \E k \in Range(SubSeq(ColNames, 1, NumCols)) \cup {UnknownName} :
           /\ stmt.has_column_keys
           /\ k \notin Range(stmt.column_keys)
           /\ Construct([stmt EXCEPT !.column_keys = Append(@, k)])

\* the items values() may add to row r: <<key, the value is a literal>>.
\* A column named by its name or an extra table's column named by its
\* object gets a literal or a clause; a column of the table named by its
\* object, a name of no column and an expression target get a literal;
\* the later rows of a multi-row INSERT name columns by name.
ValueForms(s, r) ==
    {<<StrKey(k), lit>> :
         k \in Range(SubSeq(ColNames, 1, NumCols)), lit \in BOOLEAN}
    \cup (IF r > 1 THEN {}
          ELSE {<<StrKey(UnknownName), TRUE>>, <<ExprKey("x"), TRUE>>}
               \cup {<<ColKey(s.table[i]), TRUE>> : i \in 1..NumCols}
               \cup {<<ColKey(AllExtraColumns(s)[i]), lit>> :
                         i \in 1..Len(AllExtraColumns(s)), lit \in BOOLEAN})

Values ==
    /\ Building
    /\ \E r \in 1..MaxRows :
           /\ stmt.select_names = <<>>
           /\ r <= Len(stmt.parameters) \/ (r = 1 /\ ~stmt.has_multi_parameters)
           /\ \E form \in ValueForms(stmt, r) :
                  /\ ~HasKey(stmt, r, form[1])
                  /\ Construct(WithItem(stmt, r,
                         Item(form[1], IF form[2] THEN Literal(r - 1)
                                       ELSE Clause(r - 1))))

MultiValues ==
    /\ Building
    /\ \E n \in 1..MaxRows :
           /\ stmt.isinsert
           /\ ~stmt.has_multi_parameters
           /\ stmt.select_names = <<>>
           /\ Construct([stmt EXCEPT
                  !.has_multi_parameters = TRUE,
                  !.parameters =
                      [r \in 1..n |-> IF r <= Len(stmt.parameters)
                                      THEN stmt.parameters[r] ELSE <<>>]])

\* Insert.from_select(names, select): the parameters are the names, each
\* with the expression Null(); a step gives the list one more name
FromSelect ==
    /\ Building
    /\ \E name \in Range(SubSeq(ColNames, 1, NumCols)) \ Range(stmt.select_names) :
           /\ stmt.isinsert
           /\ ~stmt.has_multi_parameters
           /\ stmt.parameters = <<>> \/ stmt.select_names # <<>>
           /\ Construct([WithItem(stmt, 1, Item(StrKey(name), Clause(0)))
                  EXCEPT !.select_names = Append(@, name)])

AddExtraFrom ==
    /\ Building
    /\ /\ stmt.isupdate
       /\ stmt.extra_froms = <<>>
       /\ Construct([stmt EXCEPT !.extra_froms = <<ExtraTable>>])

\* ------------------------------------------------------------------------
\* compiling the statement

GetCrudParams ==
    /\ pc = "ready"
    /\ \E out \in {_get_crud_params(stmt)} :
           /\ pc' = out.pc
           /\ prefetch' = out.prefetch
           /\ postfetch' = out.postfetch
           /\ returning' = out.returning
           /\ result' = out.result
           /\ unconsumed' = out.unconsumed
           /\ check_columns' = out.check_columns
    /\ UNCHANGED <<stmt, builder>>

Init ==
    /\ stmt \in {PlainStatement(TRUE), PlainStatement(FALSE)}
    /\ pc = "ready"
    /\ prefetch = <<>>
    /\ postfetch = <<>>
    /\ returning = <<>>
    /\ result = <<>>
    /\ unconsumed = {}
    /\ check_columns = {}
    /\ builder = NewBuilder("update")

Next ==
    \/ DeclarePrimaryKey
    \/ DeclareAutoincrement
    \/ DeclareDefault
    \/ DeclareServerDefault
    \/ DeclareOnupdate
    \/ DeclareServerOnupdate
    \/ SetDialectFlag
    \/ DisableTableImplicitReturning
    \/ SetInline
    \/ SetReturning
    \/ ReturnDefaults
    \/ CompileWithoutColumnKeys
    \/ AddColumnKey
    \/ Values
    \/ MultiValues
    \/ FromSelect
    \/ AddExtraFrom
    \/ GetCrudParams

Spec == Init /\ [][Next]_vars

BuilderInit ==
    /\ stmt = PlainStatement(TRUE)
    /\ pc = "ready"
    /\ prefetch = <<>>
    /\ postfetch = <<>>
    /\ returning = <<>>
    /\ result = <<>>
    /\ unconsumed = {}
    /\ check_columns = {}
    /\ builder \in {NewBuilder("update"), NewBuilder("nothing")}

BuilderNext ==
    \/ OnConstraint
    \/ OnColumns
    \/ SetWithExcluded
    \/ Where

BuilderSpec == BuilderInit /\ [][BuilderNext]_vars

\* ------------------------------------------------------------------------
\* vocabulary of the properties, read off the statement and the outcome

Returned == pc = "returned"

MainColumns == Range(stmt.table)

ExtraColumns == Range(AllExtraColumns(stmt))

Row0 == result[1]

EntriesFor(values, id) ==
    Cardinality({j \in 1..Len(values) : values[j].target = id})

TimesIn(id) == Count(prefetch, id) + Count(postfetch, id) + Count(returning, id)

\* the caller gave the column a value in the statement's (first) row
Supplied(c) ==
    \E i \in 1..Len(stmt_parameters(stmt)) :
        LET k == stmt_parameters(stmt)[i].key
        IN  \/ k.kind = "col" /\ k.table = c.table /\ k.name = c.key
            \/ k.kind = "str" /\ c.table = "t" /\ k.name = c.key

SuppliedByObject(c) ==
    \E i \in 1..Len(stmt_parameters(stmt)) :
        stmt_parameters(stmt)[i].key = ColKey(c)

NamedByColumnKeys(c) ==
    stmt.has_column_keys /\ c.table = "t" /\ c.key \in Range(stmt.column_keys)

NoExplicitValue(c) == ~Supplied(c) /\ ~NamedByColumnKeys(c)

IsInsertFromSelect == stmt.isinsert /\ stmt.select_names # <<>>

\* the statement is not compiled by the shortcut for a statement without
\* parameters and column keys, so its columns are classified
Classified == stmt.has_column_keys \/ stmt.parameters # <<>>

NeedPks ==
    stmt.isinsert /\ ~stmt.inline /\ ~stmt.returning
    /\ ~stmt.has_multi_parameters

ImplicitReturning ==
    NeedPks /\ stmt.dialect.implicit_returning /\ stmt.table_implicit_returning

\* ------------------------------------------------------------------------
\* C1: after _get_crud_params returns, every column appears at most once in
\* prefetch, postfetch and returning taken together (so a column is never
\* in two of the sets, nor twice in one).
C1_AtMostOneSet ==
    Returned => \A c \in MainColumns \cup ExtraColumns : TimesIn(ColId(c)) <= 1

C1_Witness ==
    /\ Returned
    /\ postfetch # <<>>
    /\ prefetch # <<>> \/ returning # <<>>

\* ------------------------------------------------------------------------
\* C2: every column the caller supplied a value for has exactly one entry
\* in the (first row's) value list.
C2_ExactlyOneEntry ==
    Returned =>
        \A c \in MainColumns \cup ExtraColumns :
            Supplied(c) => EntriesFor(Row0, ColId(c)) = 1

C2_Witness ==
    /\ Returned
    /\ \E c \in MainColumns : SuppliedByObject(c) /\ NamedByColumnKeys(c)

\* ------------------------------------------------------------------------
\* C3: under need_pks a primary key column with no explicit value and no
\* usable default, for which the scan takes the primary key path, is in
\* prefetch or returning.

PkRecoveryCase(c) ==
    /\ c.primary_key
    /\ NoExplicitValue(c)
    /\ \/ c.default = None
       \/ is_sequence(c.default) /\ ~stmt.dialect.supports_sequences
    /\ \/ ImplicitReturning
       \/ ~stmt.dialect.postfetch_lastrowid
       \/ stmt.autoincrement_column # c.key

InPrefetchOrReturning(c) ==
    ColId(c) \in Range(prefetch) \cup Range(returning)

\* C3 as stated: the column is never left out of both sets.
C3_Original ==
    (Returned /\ NeedPks) =>
        \A c \in MainColumns : PkRecoveryCase(c) => InPrefetchOrReturning(c)

\* C3 amended: in an INSERT that is not from a SELECT and is compiled with
\* parameters or column keys, such a column is in prefetch or returning
\* exactly when implicit_returning is active or it is the auto-increment
\* column of a dialect that supports sequences or pre-executes
\* autoincrement sequences; otherwise it is left out of both.
C3_PkRecovered ==
    (Returned /\ NeedPks /\ Classified /\ ~IsInsertFromSelect) =>
        \A c \in MainColumns :
            PkRecoveryCase(c) =>
                (InPrefetchOrReturning(c) <=>
                    \/ ImplicitReturning
                    \/ /\ stmt.autoincrement_column = c.key
                       /\ \/ stmt.dialect.supports_sequences
                          \/ stmt.dialect.preexecute_autoincrement_sequences)

C3_Witness ==
    /\ Returned /\ NeedPks /\ Classified /\ ~IsInsertFromSelect
    /\ \E c \in MainColumns :
           PkRecoveryCase(c) /\ ColId(c) \in Range(prefetch)

\* ------------------------------------------------------------------------
\* C4: a value under a name that matches no column makes _get_crud_params
\* raise CompileError naming exactly the unmatched names, for single-row
\* and multi-row statements alike.

UnmatchedIn(row) ==
    {<<"", row[i].key.name>> :
        i \in {j \in 1..Len(row) :
                  /\ row[j].key.kind = "str"
                  /\ \A c \in MainColumns : c.key # row[j].key.name}}

UnmatchedKeys ==
    UNION {UnmatchedIn(stmt.parameters[r]) : r \in 1..Len(stmt.parameters)}

C4_UnconsumedRaises ==
    (pc # "ready" /\ UnmatchedKeys # {}) =>
        (pc = "raised" /\ unconsumed = UnmatchedKeys)

\* ------------------------------------------------------------------------
\* C5: a multi-row INSERT returns one value list per row; each later list
\* has the length and the targets of the first, and a column whose key the
\* row does not give keeps the first row's rendered value.
C5_RowsFollowRow0 ==
    (Returned /\ stmt.has_multi_parameters) =>
        /\ Len(result) = Len(stmt.parameters)
        /\ \A r \in 2..Len(result) :
               /\ Len(result[r]) = Len(Row0)
               /\ \A j \in 1..Len(Row0) :
                      /\ result[r][j].target = Row0[j].target
                      /\ (~\E i \in 1..Len(stmt.parameters[r]) :
                              stmt.parameters[r][i].key =
                                  StrKey(Row0[j].target[2]))
                         => result[r][j].value = Row0[j].value

C5_Witness ==
    /\ Returned /\ stmt.has_multi_parameters
    /\ Len(result) >= 2
    /\ \E j \in 1..Len(Row0) :
           /\ Row0[j].value.kind = "bind"
           /\ result[2][j] = Row0[j]

\* ------------------------------------------------------------------------
\* C6: after any calls on a DO UPDATE builder, update_whereclause is the
\* conjunction, in call order, of the filters of all the where calls made:
\* absent before the first, the filter itself after the first, and never
\* short of an earlier filter.

RECURSIVE Conjuncts(_)
Conjuncts(e) ==
    IF e = NoExpr THEN <<>>
    ELSE IF e[1] = "and" THEN Conjuncts(e[2]) \o Conjuncts(e[3])
    ELSE <<e>>

WhereFilters ==
    [i \in 1..Len(builder.where_calls) |->
        IF builder.where_calls[i].kind = "str"
        THEN <<"text", builder.where_calls[i].v>>
        ELSE <<"expr", builder.where_calls[i].v>>]

C6_WhereConjunction ==
    /\ Conjuncts(builder.obj.update_whereclause) = WhereFilters
    /\ Len(WhereFilters) = 0 => builder.obj.update_whereclause = NoExpr
    /\ Len(WhereFilters) = 1 => builder.obj.update_whereclause = WhereFilters[1]

C6_Witness ==
    /\ Len(builder.where_calls) = MaxWheres
    /\ builder.where_calls[1] # builder.where_calls[2]
    /\ builder.last.op = "set_with_excluded"
    /\ builder.obj.conflict_target_type # None
    /\ Len(Conjuncts(builder.obj.update_whereclause)) = MaxWheres

\* ------------------------------------------------------------------------
\* C7: a call of on_constraint, on_columns or set_with_excluded with an
\* argument that resolves to an empty or absent name raises ValueError, and
\* the builder holds no empty constraint or column name.
C7_EmptyNameRaises ==
    /\ builder.last.unnamed => builder.last.raised
    /\ \A n \in Range(builder.obj.conflict_target_elements.items)
             \cup Range(builder.obj.update_values_to_set) :
           n \notin {None, ""}

\* ------------------------------------------------------------------------
\* C8: after _get_crud_params returns, every column in prefetch has an
\* entry in the value list.
C8_PrefetchHasValue ==
    Returned => \A id \in Range(prefetch) : EntriesFor(Row0, id) >= 1

C8_Witness ==
    /\ Returned
    /\ stmt.isupdate
    /\ \E c \in MainColumns :
           /\ c.onupdate = "scalar"
           /\ ColId(c) \in Range(prefetch)
           /\ EntriesFor(Row0, ColId(c)) = 1

\* ------------------------------------------------------------------------
\* C9: the value list's entries for the main table follow the order of the
\* classifier (the table's columns, or select_names for an INSERT from a
\* SELECT, which classifies the named columns only), and a column with no
\* explicit value, no default or onupdate and no server default has no
\* entry and is in no output set.

ClassifierOrder ==
    IF IsInsertFromSelect THEN stmt.select_names
    ELSE [i \in 1..Len(stmt.table) |-> stmt.table[i].key]

PositionIn(names, key) == CHOOSE i \in 1..Len(names) : names[i] = key

MainEntryPositions == {j \in 1..Len(Row0) : Row0[j].target[1] = "t"}

InClassifierOrder ==
    /\ \A j \in MainEntryPositions : Row0[j].target[2] \in Range(ClassifierOrder)
    /\ \A j1, j2 \in MainEntryPositions :
           j1 < j2 =>
               PositionIn(ClassifierOrder, Row0[j1].target[2])
                   < PositionIn(ClassifierOrder, Row0[j2].target[2])

Bare(c) ==
    /\ NoExplicitValue(c)
    /\ c.default = None /\ ~c.server_default
    /\ c.onupdate = None /\ ~c.server_onupdate

Contributes(c) == EntriesFor(Row0, ColId(c)) > 0 \/ TimesIn(ColId(c)) > 0

\* C9 as stated, for a statement the classifier runs on
C9_Original ==
    (Returned /\ Classified) =>
        /\ InClassifierOrder
        /\ \A c \in MainColumns : Bare(c) => ~Contributes(c)

\* C9 amended: the order holds as stated. A column the classifier does not
\* scan contributes nothing. In a statement compiled with parameters or
\* column keys a scanned column with no explicit value, no default or
\* onupdate and no server default
\*   - is in returning exactly when it is a primary key under implicit
\*     returning or is among the implicitly returned defaults,
\*   - has an entry, and is in prefetch, exactly when it is the primary key
\*     auto-increment column of an INSERT that needs primary keys without
\*     implicit returning, on a dialect that does not postfetch lastrowid
\*     and supports sequences or pre-executes autoincrement sequences,
\*   - is never in postfetch;
\* without parameters and column keys every column has one entry, a
\* required bound parameter, and is in no set.
BarePrefetched(c) ==
    /\ c.primary_key /\ NeedPks /\ ~ImplicitReturning
    /\ stmt.autoincrement_column = c.key
    /\ ~stmt.dialect.postfetch_lastrowid
    /\ \/ stmt.dialect.supports_sequences
       \/ stmt.dialect.preexecute_autoincrement_sequences

BareReturned(c) ==
    \/ c.primary_key /\ ImplicitReturning
    \/ /\ stmt.dialect.implicit_returning /\ stmt.table_implicit_returning
       /\ stmt.isinsert => NeedPks
       /\ \/ stmt.return_defaults.all
          \/ ColId(c) \in stmt.return_defaults.cols

C9_OrderAndBare ==
    Returned =>
        /\ InClassifierOrder
        /\ \A c \in MainColumns :
               /\ c.key \notin Range(ClassifierOrder) => ~Contributes(c)
               /\ (Bare(c) /\ c.key \in Range(ClassifierOrder)) =>
                      IF Classified
                      THEN /\ ColId(c) \in Range(returning) <=> BareReturned(c)
                           /\ ColId(c) \in Range(prefetch) <=> BarePrefetched(c)
                           /\ EntriesFor(Row0, ColId(c)) > 0 <=> BarePrefetched(c)
                           /\ ColId(c) \notin Range(postfetch)
                      ELSE /\ EntriesFor(Row0, ColId(c)) = 1
                           /\ TimesIn(ColId(c)) = 0

C9_Witness ==
    /\ Returned /\ IsInsertFromSelect
    /\ Len(stmt.select_names) = 2
    /\ stmt.select_names[1] = stmt.table[2].key
    /\ stmt.select_names[2] = stmt.table[1].key
    /\ Len(Row0) = 2
    /\ Row0[1].target = ColId(stmt.table[2])
    /\ Row0[2].target = ColId(stmt.table[1])

\* ------------------------------------------------------------------------
\* C10: in a single-row INSERT under implicit returning a primary key
\* column with no explicit value is in returning whatever its default, and
\* has an entry only when the default is a clause element or a sequence the
\* dialect renders.

RenderedDefault(c) ==
    \/ c.default = "clause"
    \/ /\ c.default \in {"sequence", "optional_sequence"}
       /\ stmt.dialect.supports_sequences
       /\ c.default = "sequence" \/ ~stmt.dialect.sequences_optional

\* C10 as stated
C10_Original ==
    (Returned /\ ImplicitReturning) =>
        \A c \in MainColumns :
            (c.primary_key /\ NoExplicitValue(c)) =>
                /\ ColId(c) \in Range(returning)
                /\ EntriesFor(Row0, ColId(c)) > 0 <=> RenderedDefault(c)

\* C10 amended: in such an INSERT, not from a SELECT and compiled with
\* parameters or column keys, a primary key column with no explicit value
\* and a client-side (scalar or callable) default gets a bound placeholder
\* and is in prefetch, not in returning; with any other default, or none,
\* it is in returning and not in prefetch, and has an entry exactly when
\* the default is a clause element or a sequence the dialect renders.
C10_PkUnderImplicitReturning ==
    (Returned /\ ImplicitReturning /\ Classified /\ ~IsInsertFromSelect) =>
        \A c \in MainColumns :
            (c.primary_key /\ NoExplicitValue(c)) =>
                IF c.default = "scalar"
                THEN /\ ColId(c) \in Range(prefetch)
                     /\ ColId(c) \notin Range(returning)
                     /\ \E j \in 1..Len(Row0) :
                            /\ Row0[j].target = ColId(c)
                            /\ Row0[j].value.kind = "bind"
                ELSE /\ ColId(c) \in Range(returning)
                     /\ ColId(c) \notin Range(prefetch)
                     /\ EntriesFor(Row0, ColId(c)) > 0 <=> RenderedDefault(c)

C10_Witness ==
    /\ Returned /\ ImplicitReturning /\ Classified /\ ~IsInsertFromSelect
    /\ \E c \in MainColumns :
           /\ c.primary_key /\ NoExplicitValue(c)
           /\ c.default = "scalar"
           /\ ColId(c) \in Range(prefetch)

\* ------------------------------------------------------------------------
\* C11: in a multi-row INSERT the bound parameter for a literal of column c
\* is named c_0 in the first row and c_k in the k-th later row, and no two
\* distinct bound parameters of the value lists share a name, the
\* placeholder of a default, named after its column, included.

\* the bound parameters of the value lists, each with its target; a
\* placeholder that later rows reuse is one bound parameter
BoundParameters ==
    UNION {{<<result[r][j].target, result[r][j].value>> :
                j \in {i \in 1..Len(Row0) : result[r][i].value.kind = "bind"}} :
           r \in 1..Len(result)}

RowLiteral(r, key) ==
    \E i \in 1..Len(stmt.parameters[r]) :
        /\ stmt.parameters[r][i].key = StrKey(key)
        /\ stmt.parameters[r][i].value.lit

RowBindNamed ==
    \A r \in 1..Len(result) : \A j \in 1..Len(Row0) :
        (result[r][j].target[1] = "t" /\ RowLiteral(r, result[r][j].target[2]))
            => /\ result[r][j].value.kind = "bind"
               /\ result[r][j].value.name =
                      result[r][j].target[2] \o "_" \o ToString(r - 1)

BindNamesUnique ==
    \A b1, b2 \in BoundParameters : b1 # b2 => b1[2].name # b2[2].name

C11_BindNamesUnique ==
    (Returned /\ stmt.has_multi_parameters) =>
        (RowBindNamed /\ BindNamesUnique)

\* ------------------------------------------------------------------------
\* C12: for an UPDATE of one table check_columns is empty when the names
\* are checked, and a key of the statement's parameters that matches no
\* column is not flagged: _get_crud_params returns.

SingleTableUpdate == stmt.isupdate /\ stmt.extra_froms = <<>>

\* C12 as stated
C12_Original ==
    (pc # "ready" /\ SingleTableUpdate) =>
        /\ check_columns = {}
        /\ UnmatchedKeys # {} => pc = "returned"

\* C12 amended: check_columns is empty, so it exempts no name; a key that
\* matches no column is flagged: _get_crud_params raises CompileError
\* naming exactly the unmatched keys, and returns when there is none.
C12_SingleTableUpdateFlags ==
    (pc # "ready" /\ SingleTableUpdate) =>
        /\ check_columns = {}
        /\ IF UnmatchedKeys # {}
           THEN pc = "raised" /\ unconsumed = UnmatchedKeys
           ELSE pc = "returned" /\ unconsumed = {}

C12_Witness ==
    /\ pc = "raised" /\ SingleTableUpdate
    /\ check_columns = {}
    /\ UnmatchedKeys # {}
    /\ \E c \in MainColumns : Supplied(c)

\* ------------------------------------------------------------------------
\* C13: in every state of a builder the conflict target is consistent
\* (the type is None exactly when the elements are None, 'constraint'
\* exactly when they are one constraint name, 'columns' exactly when they
\* are a non-empty list of column names), and a call that raises
\* ValueError leaves the conflict target and the set assignments as they
\* were.

TargetConsistent ==
    LET type == builder.obj.conflict_target_type
        elements == builder.obj.conflict_target_elements
    IN  /\ type = None <=> elements.shape = None
        /\ type = "constraint" <=> elements.shape = "str"
        /\ type = "columns" <=> (elements.shape = "list" /\ elements.items # <<>>)

RaisingCallChangesNothing ==
    builder'.last.raised =>
        /\ builder'.obj.conflict_target_type = builder.obj.conflict_target_type
        /\ builder'.obj.conflict_target_elements =
               builder.obj.conflict_target_elements
        /\ builder'.obj.conflict_target_whereclause =
               builder.obj.conflict_target_whereclause
        /\ builder'.obj.update_values_to_set = builder.obj.update_values_to_set

C13_TargetConsistentCallsAtomic ==
    []TargetConsistent /\ [][RaisingCallChangesNothing]_vars

====
